---- MODULE Spec2Model ----
(***************************************************************************)
(* State-machine model of packages/react/src/lib/tracking.ts: the effect   *)
(* stores created by createEffectStore, the shared tracking depth and      *)
(* cleanup handle, and the deferred reset of the sync-rerender counters.   *)
(*                                                                         *)
(* One action is one call made from outside the module: startTracking,     *)
(* finishTracking, subscribe, the function subscribe returns, a read or a  *)
(* write of a signal, and the queued resetSyncRerenders microtask.  The    *)
(* effect of @preact/signals-core the store is bound to is modelled by its  *)
(* source set, its DISPOSED flag, the recording region opened by _start()  *)
(* and closed by the function _start() returns, and the batch that defers  *)
(* notifications while a region is open.                                   *)
(***************************************************************************)
EXTENDS Integers, Sequences, FiniteSets, TLC

\* ------------------------------------------------------------------ bounds
Stores    == {"s1", "s2"}
Vals      == {"v1"}
Callbacks == {"cb1"}
\* Two subscribers of one store.
TwoCallbacks == {"cb1", "cb2"}

\* Deepest nesting of tracking regions explored.
MaxDepth == 2
\* Calls explored from the initial state.
MaxCalls == 9
\* Calls explored from the initial state when the event loop runs beside them.
MaxLiveCalls == 6

\* ------------------------------------------------------- program constants
maxSyncRerenders == 25

MaxInt32 == 2147483647
MinInt32 == -MaxInt32 - 1

\* `(version + 1) | 0`: the sum is taken exactly and ToInt32 wraps it.
Inc32_Saturating(x) == IF x = MaxInt32 THEN MaxInt32 ELSE x + 1
Inc32(x) == IF x = MaxInt32 THEN MinInt32 ELSE x + 1

\* ------------------------------------------------------------------- state
VARIABLES
    \* per store (closure variables of createEffectStore)
    version,                \* let version
    onChangeNotifyReact,    \* let onChangeNotifyReact ("none" = undefined)
    inRender,               \* let inRender
    syncRerendersCount,     \* let syncRerendersCount
    \* per rendering unit (the unit of store s is the one whose hook made s)
    storeRef,               \* useRef of useSignals: 0 = empty, n = the n-th store made
    \* module-level state of tracking.ts
    useSignalsDepth,
    cleanUpFn,              \* NoHandle = undefined
    isResetSyncRerendersScheduled,
    resetSyncRerendersSet,
    microtasks,             \* resetSyncRerenders callbacks queued by _queueMicrotask
    \* the effect of each store (signals-core)
    sources,                \* signals the effect is subscribed to
    disposed,               \* the effect's DISPOSED flag
    recorded,               \* signals read in the open recording region
    stale,                  \* recorded signals written after they were read
    pendingNotify,          \* effects notified while the batch is open
    openRegions,            \* recording regions opened and not yet closed
    \* observation of the calls made so far
    stack,                  \* stores with a startTracking not matched by their finishTracking
    wellNested,             \* every finishTracking so far closed the innermost open render,
                            \* and no store was started while it was rendering
    lastRead,               \* signals a store's unit read in its latest tracking region
    outerHandle,            \* handle stored by the latest startTracking at depth 0
    startsSinceReset,       \* startTracking calls per store since the reset task last ran
    exceeded,               \* stores that reached the ceiling at some point
    unsubFns,               \* callbacks whose subscribe() returned an unsubscribe function
    activeSubs,             \* callbacks subscribed since an unsubscribe function their
                            \* subscribe() returned was last invoked
    calls,                  \* calls made so far
    last                    \* the latest call and what it did

storeVars  == <<version, onChangeNotifyReact, inRender, syncRerendersCount>>
sharedVars == <<useSignalsDepth, cleanUpFn>>
schedVars  == <<isResetSyncRerendersScheduled, resetSyncRerendersSet, microtasks>>
effectVars == <<sources, disposed, recorded, stale, pendingNotify, openRegions>>
obsVars    == <<stack, wellNested, lastRead, outerHandle, startsSinceReset, exceeded,
               unsubFns, activeSubs>>
vars       == <<storeVars, storeRef, sharedVars, schedVars, effectVars, obsVars, calls, last>>

NoHandle == [effect |-> "none", id |-> 0]

\* op: the call; store: the store it was made on; val: the signal read or written;
\* threw: the error that left the call; delivered: the stores whose dependency-change
\* handler ran; rendering: those of them whose inRender was true when it ran;
\* refused: those whose handler threw the runaway error; seen: for each store
\* whose notify callback ran, the snapshot the callback could read; raised: the
\* stores whose callback threw; invoked: the cleanup handle the call invoked;
\* returned: the number a getSnapshot call returned; cb: the callback passed to
\* subscribe, or the one passed to the subscribe whose returned function was invoked.
NoCall == [op |-> "init", store |-> "none", val |-> "none", threw |-> "none",
           delivered |-> {}, rendering |-> {}, refused |-> {}, seen |-> <<>>,
           raised |-> {}, invoked |-> NoHandle, returned |-> 0, cb |-> "none"]

Call(op, s) == [NoCall EXCEPT !.op = op, !.store = s]

\* ------------------------------------------------- the dependency-change handler
\* effectInstance[onDepsChange] of store s; `raises` says whether the notify
\* callback throws when it is called.  The result is the store's version
\* afterwards, whether the callback was called and the snapshot it could read,
\* and the error that left the handler.
OnDepsChange_NoRenderGuard(s, raises) ==
    IF syncRerendersCount[s] > maxSyncRerenders
    THEN [version |-> version[s], called |-> FALSE, snapshot |-> version[s], threw |-> "tooMany"]
    ELSE IF onChangeNotifyReact[s] = "none"
    THEN [version |-> Inc32(version[s]), called |-> FALSE, snapshot |-> version[s], threw |-> "none"]
    ELSE [version |-> Inc32(version[s]), called |-> TRUE, snapshot |-> Inc32(version[s]),
          threw |-> IF raises THEN "callback" ELSE "none"]

OnDepsChange_IncrementAfterNotify(s, raises) ==
    IF inRender[s]
    THEN [version |-> version[s], called |-> FALSE, snapshot |-> version[s], threw |-> "none"]
    ELSE IF syncRerendersCount[s] > maxSyncRerenders
    THEN [version |-> version[s], called |-> FALSE, snapshot |-> version[s], threw |-> "tooMany"]
    ELSE IF onChangeNotifyReact[s] = "none"
    THEN [version |-> Inc32(version[s]), called |-> FALSE, snapshot |-> version[s], threw |-> "none"]
    ELSE [version |-> IF raises THEN version[s] ELSE Inc32(version[s]),
          called |-> TRUE, snapshot |-> version[s],
          threw |-> IF raises THEN "callback" ELSE "none"]

OnDepsChange_CeilingInclusive(s, raises) ==
    IF inRender[s]
    THEN [version |-> version[s], called |-> FALSE, snapshot |-> version[s], threw |-> "none"]
    ELSE IF syncRerendersCount[s] >= maxSyncRerenders
    THEN [version |-> version[s], called |-> FALSE, snapshot |-> version[s], threw |-> "tooMany"]
    ELSE IF onChangeNotifyReact[s] = "none"
    THEN [version |-> Inc32(version[s]), called |-> FALSE, snapshot |-> version[s], threw |-> "none"]
    ELSE [version |-> Inc32(version[s]), called |-> TRUE, snapshot |-> Inc32(version[s]),
          threw |-> IF raises THEN "callback" ELSE "none"]

OnDepsChange(s, raises) ==
    IF inRender[s]
    THEN [version |-> version[s], called |-> FALSE, snapshot |-> version[s], threw |-> "none"]
    ELSE IF syncRerendersCount[s] > maxSyncRerenders
    THEN [version |-> version[s], called |-> FALSE, snapshot |-> version[s], threw |-> "tooMany"]
    ELSE IF onChangeNotifyReact[s] = "none"
    THEN [version |-> Inc32(version[s]), called |-> FALSE, snapshot |-> version[s], threw |-> "none"]
    ELSE [version |-> Inc32(version[s]), called |-> TRUE, snapshot |-> Inc32(version[s]),
          threw |-> IF raises THEN "callback" ELSE "none"]

\* ----------------------------------------------------------- signals-core
\* endBatch() of the outermost batch: the callback of every notified effect in
\* D runs, an error of one does not stop the others, and the first error caught
\* is thrown again once all have run.
Called(D, bad)       == {s \in D : OnDepsChange(s, s \in bad).called}
VersionAfter(D, bad) == [s \in Stores |-> IF s \in D THEN OnDepsChange(s, s \in bad).version
                                          ELSE version[s]]
SeenBy(D, bad)       == [s \in Called(D, bad) |-> OnDepsChange(s, s \in bad).snapshot]
Errors(D, bad)       == {OnDepsChange(s, s \in bad).threw : s \in D} \ {"none"}
Refused(D, bad)      == {s \in D : OnDepsChange(s, s \in bad).threw = "tooMany"}
Rendering(D)         == {s \in D : inRender[s]}
Rethrown(D, bad)     == IF Errors(D, bad) = {} THEN {"none"} ELSE Errors(D, bad)

\* ------------------------------------------------------------ exploration
\* Versions and counters a store may start from: a new store, a store whose
\* version has reached the largest 32-bit value, a store rendered
\* maxSyncRerenders - 1 times in the current tick.
FreshVersion == 0
LateVersion  == MaxInt32
NearCeiling  == maxSyncRerenders - 1

\* One more call is made.
Step == calls < MaxCalls /\ calls' = calls + 1
\* A call is made that makes n calls of the store's methods in turn.
Steps(n) == calls + n <= MaxCalls /\ calls' = calls + n

Range(seq) == {seq[i] : i \in 1 .. Len(seq)}

\* Store s is the innermost store rendering.
IsTop(s) == stack # <<>> /\ stack[Len(stack)] = s

RECURSIVE RemoveLast(_, _)
RemoveLast(seq, s) ==
    IF seq = <<>> THEN <<>>
    ELSE IF seq[Len(seq)] = s THEN SubSeq(seq, 1, Len(seq) - 1)
    ELSE Append(RemoveLast(SubSeq(seq, 1, Len(seq) - 1), s), seq[Len(seq)])

\* ------------------------------------------------------------------- Init
InitWith(versions, counts) ==
    /\ version \in [Stores -> versions]
    /\ onChangeNotifyReact = [s \in Stores |-> "none"]
    /\ inRender = [s \in Stores |-> FALSE]
    /\ syncRerendersCount \in [Stores -> counts]
    /\ storeRef = [s \in Stores |->
            IF version[s] = FreshVersion /\ syncRerendersCount[s] = 0 THEN 0 ELSE 1]
    /\ useSignalsDepth = 0
    /\ cleanUpFn = NoHandle
    /\ resetSyncRerendersSet = {s \in Stores : syncRerendersCount[s] > 0}
    /\ isResetSyncRerendersScheduled = (resetSyncRerendersSet # {})
    /\ microtasks = IF resetSyncRerendersSet # {} THEN 1 ELSE 0
    /\ sources = [s \in Stores |-> {}]
    /\ disposed = [s \in Stores |-> FALSE]
    /\ recorded = {}
    /\ stale = {}
    /\ pendingNotify = {}
    /\ openRegions = 0
    /\ stack = <<>>
    /\ wellNested = TRUE
    /\ lastRead = [s \in Stores |-> {}]
    /\ outerHandle = NoHandle
    /\ startsSinceReset = syncRerendersCount
    /\ exceeded = {}
    /\ unsubFns = [s \in Stores |-> {}]
    /\ activeSubs = [s \in Stores |-> {}]
    /\ calls = 0
    /\ last = NoCall

\* Every store newly created.
Init == InitWith({FreshVersion}, {0})
\* One store already rendered NearCeiling times in the current tick, the
\* other not made yet.
InitTick ==
    /\ InitWith({FreshVersion}, {0, NearCeiling})
    /\ LET busy == CHOOSE s \in Stores : TRUE
       IN  syncRerendersCount = [s \in Stores |-> IF s = busy THEN NearCeiling ELSE 0]
\* One store about to wrap, the other new.
InitWrap ==
    /\ InitWith({FreshVersion, LateVersion}, {0})
    /\ LET late == CHOOSE s \in Stores : TRUE
       IN  version = [s \in Stores |-> IF s = late THEN LateVersion ELSE FreshVersion]

\* The shared depth and handle as the assertions of startTracking and
\* finishTracking may find them: every combination of a depth and of a handle
\* present or absent, with the region of a present handle open.
Handles == {NoHandle} \cup {[effect |-> s, id |-> 1] : s \in Stores}

InitAssert ==
    /\ version = [s \in Stores |-> FreshVersion]
    /\ onChangeNotifyReact = [s \in Stores |-> "none"]
    /\ inRender = [s \in Stores |-> FALSE]
    /\ syncRerendersCount = [s \in Stores |-> 0]
    /\ storeRef = [s \in Stores |-> 1]
    /\ useSignalsDepth \in 0 .. MaxDepth - 1
    /\ cleanUpFn \in Handles
    /\ resetSyncRerendersSet = {}
    /\ isResetSyncRerendersScheduled = FALSE
    /\ microtasks = 0
    /\ sources = [s \in Stores |-> {}]
    /\ disposed = [s \in Stores |-> FALSE]
    /\ recorded = {}
    /\ stale = {}
    /\ pendingNotify = {}
    /\ openRegions = IF cleanUpFn = NoHandle THEN 0 ELSE 1
    /\ stack = <<>>
    /\ wellNested = FALSE
    /\ lastRead = [s \in Stores |-> {}]
    /\ outerHandle = cleanUpFn
    /\ startsSinceReset = syncRerendersCount
    /\ exceeded = {}
    /\ unsubFns = [s \in Stores |-> {}]
    /\ activeSubs = [s \in Stores |-> {}]
    /\ calls = 0
    /\ last = NoCall

\* ------------------------------------------------- scheduleResetSyncRerenders
scheduleResetSyncRerenders_Unqueued(s) ==
    /\ isResetSyncRerendersScheduled' = TRUE
    /\ microtasks' = microtasks
    /\ resetSyncRerendersSet' = resetSyncRerendersSet \cup {s}

scheduleResetSyncRerenders_Unregistered(s) ==
    /\ isResetSyncRerendersScheduled' = TRUE
    /\ microtasks' = IF isResetSyncRerendersScheduled THEN microtasks ELSE microtasks + 1
    /\ resetSyncRerendersSet' = resetSyncRerendersSet

scheduleResetSyncRerenders_Always(s) ==
    /\ isResetSyncRerendersScheduled' = TRUE
    /\ microtasks' = microtasks + 1
    /\ resetSyncRerendersSet' = resetSyncRerendersSet \cup {s}

scheduleResetSyncRerenders(s) ==
    /\ isResetSyncRerendersScheduled' = TRUE
    /\ microtasks' = IF isResetSyncRerendersScheduled THEN microtasks ELSE microtasks + 1
    /\ resetSyncRerendersSet' = resetSyncRerendersSet \cup {s}

\* store.resetSyncRerenders(): the counter's value afterwards.
ResetCount_Kept(c) == c
ResetCount(c) == 0

\* `resetSyncRerendersSet.clear()`: the registry afterwards.
RegistryAfterReset_Kept == resetSyncRerendersSet
RegistryAfterReset == {}

\* What the queued resetSyncRerenders callback does when it runs.
ResetTask ==
    /\ microtasks > 0
    /\ isResetSyncRerendersScheduled' = FALSE
    /\ syncRerendersCount' = [s \in Stores |->
            IF s \in resetSyncRerendersSet THEN ResetCount(syncRerendersCount[s])
            ELSE syncRerendersCount[s]]
    /\ resetSyncRerendersSet' = RegistryAfterReset
    /\ microtasks' = microtasks - 1
    /\ startsSinceReset' = [s \in Stores |-> 0]
    /\ last' = Call("reset", "none")
    /\ UNCHANGED <<version, onChangeNotifyReact, inRender, storeRef, sharedVars, effectVars,
                   stack, wellNested, lastRead, outerHandle, exceeded, unsubFns, activeSubs>>

\* The queued resetSyncRerenders microtask, counted among the calls explored.
resetSyncRerenders == Step /\ ResetTask

\* The same microtask as the event loop runs it: whatever was called before.
runMicrotask == ResetTask /\ UNCHANGED calls

\* The store of unit s has been made: its methods can be called.
Exists(s) == storeRef[s] # 0

\* --------------------------------------------------------------- subscribe
subscribe(s, cb) ==
    /\ Step
    /\ Exists(s)
    /\ UNCHANGED storeRef
    /\ onChangeNotifyReact' = [onChangeNotifyReact EXCEPT ![s] = cb]
    /\ unsubFns' = [unsubFns EXCEPT ![s] = @ \cup {cb}]
    /\ activeSubs' = [activeSubs EXCEPT ![s] = @ \cup {cb}]
    /\ last' = [Call("subscribe", s) EXCEPT !.cb = cb]
    /\ UNCHANGED <<version, inRender, syncRerendersCount, sharedVars, schedVars, effectVars,
                   stack, wellNested, lastRead, outerHandle, startsSinceReset, exceeded>>

\* The effect of store s is between _start() and the call of the handle.
Running(s) == openRegions > 0 /\ cleanUpFn.effect = s

\* `version = (version + 1) | 0` of the returned function.
VersionAfterUnsubscribe_Same(x) == x
VersionAfterUnsubscribe(x) == Inc32(x)

\* The function subscribe(cb) returned, invoked.
unsubscribe(s, cb) ==
    /\ Step
    /\ UNCHANGED storeRef
    /\ cb \in unsubFns[s]
    /\ version' = [version EXCEPT ![s] = VersionAfterUnsubscribe(@)]
    /\ onChangeNotifyReact' = [onChangeNotifyReact EXCEPT ![s] = "none"]
    \* effect._dispose(): a running effect is disposed when its region closes
    /\ disposed' = [disposed EXCEPT ![s] = TRUE]
    /\ sources' = IF Running(s) THEN sources ELSE [sources EXCEPT ![s] = {}]
    /\ activeSubs' = [activeSubs EXCEPT ![s] = @ \ {cb}]
    /\ last' = [Call("unsubscribe", s) EXCEPT !.cb = cb]
    /\ UNCHANGED <<inRender, syncRerendersCount, sharedVars, schedVars,
                   recorded, stale, pendingNotify, openRegions,
                   stack, wellNested, lastRead, outerHandle, startsSinceReset, exceeded,
                   unsubFns>>

\* ----------------------------------------------------------- startTracking
\* The error startTracking throws in the shared state it finds, "none" if it
\* throws nothing.
StartError_Never(s) == "none"

StartError_Ceiling(s) ==
    IF useSignalsDepth = 0 /\ cleanUpFn # NoHandle THEN "assert"
    ELSE IF useSignalsDepth > 0 /\ cleanUpFn = NoHandle THEN "assert"
    ELSE IF syncRerendersCount[s] + 1 > maxSyncRerenders THEN "tooMany"
    ELSE "none"

StartError(s) ==
    IF useSignalsDepth = 0 /\ cleanUpFn # NoHandle THEN "assert"
    ELSE IF useSignalsDepth > 0 /\ cleanUpFn = NoHandle THEN "assert"
    ELSE "none"

\* `if (!useSignalsDepth)`: startTracking opens the effect's recording region.
OpensRegion_Always == TRUE
OpensRegion == useSignalsDepth = 0

startTracking(s) ==
    /\ Step
    /\ useSignalsDepth < MaxDepth
    /\ inRender' = [inRender EXCEPT ![s] = TRUE]
    /\ syncRerendersCount' = [syncRerendersCount EXCEPT ![s] = @ + 1]
    /\ scheduleResetSyncRerenders(s)
    /\ IF StartError(s) # "none"
       THEN /\ last' = [Call("start", s) EXCEPT !.threw = StartError(s)]
            /\ UNCHANGED <<sharedVars, effectVars, stack, wellNested, lastRead, outerHandle>>
       ELSE /\ IF OpensRegion
               THEN \* effect._start(): the DISPOSED flag is cleared, the sources are
                    \* kept until the region closes, a batch is opened
                    \* the handle is a new closure: the store's render number tells
                    \* it from the handles the store's effect returned before
                    /\ cleanUpFn' = [effect |-> s, id |-> syncRerendersCount'[s]]
                    /\ openRegions' = openRegions + 1
                    /\ disposed' = [disposed EXCEPT ![s] = FALSE]
                    /\ recorded' = {}
                    /\ stale' = {}
                    /\ UNCHANGED <<sources, pendingNotify>>
               ELSE UNCHANGED <<cleanUpFn, effectVars>>
            /\ useSignalsDepth' = useSignalsDepth + 1
            /\ outerHandle' = IF useSignalsDepth = 0 THEN cleanUpFn' ELSE outerHandle
            /\ stack' = Append(stack, s)
            /\ wellNested' = (wellNested /\ s \notin Range(stack))
            \* a new tracking region of s begins, unless s is rendering already
            /\ lastRead' = IF s \in Range(stack) THEN lastRead
                           ELSE [lastRead EXCEPT ![s] = {}]
            /\ last' = Call("start", s)
    /\ startsSinceReset' = [startsSinceReset EXCEPT ![s] = @ + 1]
    /\ exceeded' = IF syncRerendersCount'[s] >= maxSyncRerenders
                   THEN exceeded \cup {s} ELSE exceeded
    /\ UNCHANGED <<version, onChangeNotifyReact, unsubFns, activeSubs>>

\* --------------------------------------------------------------- useSignals
\* `if (storeRef.current == null)`: the hook makes a store.
NeedsStore_Always(s) == TRUE
NeedsStore(s) == storeRef[s] = 0

\* The render hook of the unit of store s: the store is made on the first
\* call and kept in the unit's ref, and store.startTracking() is called.
useSignals(s) ==
    /\ storeRef' = [storeRef EXCEPT ![s] = IF NeedsStore(s) THEN @ + 1 ELSE @]
    /\ startTracking(s)

\* -------------------------------------------------------------- getSnapshot
\* `return version`.
Snapshot(s) == version[s]

getSnapshot(s) ==
    /\ Step
    /\ Exists(s)
    /\ last' = [Call("getSnapshot", s) EXCEPT !.returned = Snapshot(s)]
    /\ UNCHANGED <<storeVars, storeRef, sharedVars, schedVars, effectVars, obsVars>>

\* ------------------------------------------------------- reads and writes
\* The unit rendering on top of the stack reads signal v: addDependency()
\* records it in the effect whose region is open.
Read(v) ==
    /\ Step
    /\ UNCHANGED storeRef
    /\ stack # <<>>
    /\ lastRead' = [lastRead EXCEPT ![stack[Len(stack)]] = @ \cup {v}]
    /\ IF openRegions > 0
       THEN /\ recorded' = recorded \cup {v}
            /\ stale' = stale \ {v}
            /\ sources' = [sources EXCEPT ![cleanUpFn.effect] = @ \cup {v}]
       ELSE UNCHANGED <<recorded, stale, sources>>
    /\ last' = [Call("read", stack[Len(stack)]) EXCEPT !.val = v]
    /\ UNCHANGED <<storeVars, sharedVars, schedVars, disposed, pendingNotify, openRegions,
                   stack, wellNested, outerHandle, startsSinceReset, exceeded,
                   unsubFns, activeSubs>>

\* The effects whose callback endBatch() runs: notified, not disposed, and with
\* a source written since the effect read it (needsToRecompute).
Flushed(notified, owner) ==
    {e \in notified : ~disposed[e] /\ (e = owner => stale # {})}

\* The callbacks that are called when D is flushed; any of them may throw.
MayRaise(D) == {s \in D : OnDepsChange(s, FALSE).called}

\* signal.value = x with x a new value.
Mutate(v) ==
    /\ Step
    /\ UNCHANGED storeRef
    /\ IF openRegions > 0
       THEN \* inside the batch of the open region: effects are only notified
            /\ pendingNotify' = pendingNotify \cup {e \in Stores : v \in sources[e]}
            /\ stale' = stale \cup ({v} \cap recorded)
            /\ last' = [Call("mutate", "none") EXCEPT !.val = v]
            /\ UNCHANGED version
       ELSE LET D == Flushed({e \in Stores : v \in sources[e]}, "none") IN
            \E bad \in SUBSET MayRaise(D) :
            \E err \in Rethrown(D, bad) :
                /\ version' = VersionAfter(D, bad)
                /\ last' = [Call("mutate", "none") EXCEPT !.val = v, !.threw = err,
                              !.delivered = D, !.rendering = Rendering(D),
                              !.refused = Refused(D, bad), !.seen = SeenBy(D, bad),
                              !.raised = bad]
                /\ UNCHANGED <<pendingNotify, stale>>
    /\ UNCHANGED <<onChangeNotifyReact, inRender, syncRerendersCount, sharedVars, schedVars,
                   sources, disposed, recorded, openRegions, obsVars>>

\* ---------------------------------------------------------- finishTracking
\* `cleanUpFn = undefined` in the finally block.
ClearedHandle_Kept == cleanUpFn
ClearedHandle == NoHandle

\* `inRender = false` in the finally block: the flag of store t afterwards,
\* s being the store finishTracking was called on.
InRenderAfterClose(s, t) == IF t = s THEN FALSE ELSE inRender[t]

\* `if (useSignalsDepth < 1) throw`: the call is refused before anything is done.
FinishRefused_Never == FALSE
FinishRefused == useSignalsDepth < 1

\* `try { cleanUpFn(); } finally { ... }`: the two assignments of the finally
\* block are made also when cleanUpFn() raised.
ResetOnRaise_Skipped == FALSE
ResetOnRaise == TRUE

\* `useSignalsDepth--` in the outer finally block.
DepthAfterFinish_Kept(d) == d
DepthAfterFinish(d) == d - 1

finishTracking(s) ==
    /\ Step
    /\ Exists(s)
    /\ UNCHANGED storeRef
    /\ IF FinishRefused
       THEN /\ last' = [Call("finish", s) EXCEPT !.threw = "depth"]
            /\ wellNested' = FALSE
            /\ UNCHANGED <<storeVars, sharedVars, schedVars, effectVars, stack, lastRead,
                           outerHandle, startsSinceReset, exceeded, unsubFns, activeSubs>>
       ELSE IF useSignalsDepth = 1 /\ cleanUpFn = NoHandle
       THEN /\ useSignalsDepth' = DepthAfterFinish(useSignalsDepth)
            /\ stack' = RemoveLast(stack, s)
            /\ wellNested' = (wellNested /\ IsTop(s))
            /\ last' = [Call("finish", s) EXCEPT !.threw = "assert"]
            /\ UNCHANGED <<storeVars, cleanUpFn, schedVars, effectVars, lastRead, outerHandle,
                           startsSinceReset, exceeded, unsubFns, activeSubs>>
       ELSE IF useSignalsDepth = 1
       THEN \* cleanUpFn(): the region of its effect closes (the sources become the
            \* signals recorded, a disposed effect drops them) and the batch ends
            LET owner == cleanUpFn.effect
                D     == Flushed(pendingNotify, owner)
            IN  \E bad \in SUBSET MayRaise(D) :
                \E err \in Rethrown(D, bad) :
                   /\ sources' = [sources EXCEPT ![owner] = IF disposed[owner] THEN {} ELSE recorded]
                   /\ openRegions' = openRegions - 1
                   /\ recorded' = {}
                   /\ stale' = {}
                   /\ pendingNotify' = {}
                   /\ version' = VersionAfter(D, bad)
                   /\ inRender' = IF err = "none" \/ ResetOnRaise
                                  THEN [t \in Stores |-> InRenderAfterClose(s, t)]
                                  ELSE inRender
                   /\ cleanUpFn' = IF err = "none" \/ ResetOnRaise THEN ClearedHandle
                                   ELSE cleanUpFn
                   /\ useSignalsDepth' = DepthAfterFinish(useSignalsDepth)
                   /\ stack' = RemoveLast(stack, s)
                   /\ wellNested' = (wellNested /\ IsTop(s))
                   /\ last' = [Call("finish", s) EXCEPT !.threw = err, !.delivered = D,
                                 !.rendering = Rendering(D), !.refused = Refused(D, bad),
                                 !.seen = SeenBy(D, bad), !.raised = bad,
                                 !.invoked = cleanUpFn]
                   /\ outerHandle' = NoHandle
                   /\ UNCHANGED <<onChangeNotifyReact, syncRerendersCount, schedVars, disposed,
                                  lastRead, startsSinceReset, exceeded,
                                  unsubFns, activeSubs>>
       ELSE /\ useSignalsDepth' = DepthAfterFinish(useSignalsDepth)
            /\ stack' = RemoveLast(stack, s)
            /\ wellNested' = (wellNested /\ IsTop(s))
            /\ last' = Call("finish", s)
            /\ UNCHANGED <<storeVars, cleanUpFn, schedVars, effectVars, lastRead, outerHandle,
                           startsSinceReset, exceeded, unsubFns, activeSubs>>

\* -------------------------------------------------------------- SignalValue
\* The component a signal renders as, for the unit of store s showing signal
\* v: useSignals(), then `props.data.value` inside try, then finishTracking()
\* in the finally block, in one synchronous call.  `raises` says whether
\* reading the value throws (a computed signal rethrows the error of its
\* function, after it was recorded as a dependency).  Nothing is written
\* between the start and the finish, so the batch that ends with the region
\* has no callback to run.
\* An assertion of startTracking throws before the try block is entered.
\* The render counts as the calls it makes: the hook, the read, the finish.
SignalValueCalls == 3
SignalValue(s, v, raises) ==
    /\ Steps(SignalValueCalls)
    /\ useSignalsDepth < MaxDepth
    /\ storeRef' = [storeRef EXCEPT ![s] = IF NeedsStore(s) THEN @ + 1 ELSE @]
    /\ syncRerendersCount' = [syncRerendersCount EXCEPT ![s] = @ + 1]
    /\ scheduleResetSyncRerenders(s)
    /\ startsSinceReset' = [startsSinceReset EXCEPT ![s] = @ + 1]
    /\ exceeded' = IF syncRerendersCount'[s] >= maxSyncRerenders
                   THEN exceeded \cup {s} ELSE exceeded
    /\ IF StartError(s) # "none"
       THEN /\ inRender' = [inRender EXCEPT ![s] = TRUE]
            /\ last' = [Call("render", s) EXCEPT !.val = v, !.threw = StartError(s)]
            /\ UNCHANGED <<sharedVars, effectVars, stack, wellNested, lastRead, outerHandle>>
       ELSE IF OpensRegion
       THEN \* the region of s is opened, records v and is closed again
            LET handle == [effect |-> s, id |-> syncRerendersCount'[s]] IN
            /\ inRender' = [t \in Stores |-> InRenderAfterClose(s, t)]
            /\ sources' = [sources EXCEPT ![s] = {v}]
            /\ disposed' = [disposed EXCEPT ![s] = FALSE]
            /\ recorded' = {}
            /\ stale' = {}
            /\ cleanUpFn' = ClearedHandle
            /\ useSignalsDepth' = DepthAfterFinish(useSignalsDepth + 1)
            /\ outerHandle' = NoHandle
            /\ last' = [Call("render", s) EXCEPT !.val = v, !.invoked = handle,
                          !.threw = IF raises THEN "read" ELSE "none"]
            /\ UNCHANGED <<pendingNotify, openRegions>>
       ELSE \* nested in the open region of another render: v is recorded there
            /\ inRender' = [inRender EXCEPT ![s] = TRUE]
            /\ sources' = [sources EXCEPT ![cleanUpFn.effect] = @ \cup {v}]
            /\ recorded' = recorded \cup {v}
            /\ stale' = stale \ {v}
            /\ useSignalsDepth' = DepthAfterFinish(useSignalsDepth + 1)
            /\ last' = [Call("render", s) EXCEPT !.val = v,
                          !.threw = IF raises THEN "read" ELSE "none"]
            /\ UNCHANGED <<cleanUpFn, disposed, pendingNotify, openRegions, outerHandle>>
    /\ IF StartError(s) # "none" THEN TRUE
       ELSE /\ stack' = RemoveLast(Append(stack, s), s)
            /\ wellNested' = (wellNested /\ s \notin Range(stack))
            /\ lastRead' = IF s \in Range(stack)
                           THEN [lastRead EXCEPT ![s] = @ \cup {v}]
                           ELSE [lastRead EXCEPT ![s] = {v}]
    /\ UNCHANGED <<version, onChangeNotifyReact, unsubFns, activeSubs>>

\* -------------------------------------------------------------------- Next
Next ==
    \/ \E s \in Stores : useSignals(s)
    \/ \E s \in Stores : finishTracking(s)
    \/ \E s \in Stores, cb \in Callbacks : subscribe(s, cb)
    \/ \E s \in Stores, cb \in Callbacks : unsubscribe(s, cb)
    \/ \E v \in Vals : Read(v)
    \/ \E v \in Vals : Mutate(v)
    \/ \E s \in Stores : getSnapshot(s)
    \/ \E s \in Stores, v \in Vals, raises \in BOOLEAN : SignalValue(s, v, raises)
    \/ resetSyncRerenders

\* The tracking bracket alone.
NextBracket ==
    \/ \E s \in Stores : useSignals(s)
    \/ \E s \in Stores : finishTracking(s)

\* The calls made from outside, and the event loop draining its queue.
NextLive ==
    \/ calls < MaxLiveCalls /\ \E s \in Stores : useSignals(s)
    \/ calls < MaxLiveCalls /\ \E s \in Stores : finishTracking(s)
    \/ calls < MaxLiveCalls /\ \E s \in Stores, cb \in Callbacks : subscribe(s, cb)
    \/ calls < MaxLiveCalls /\ \E s \in Stores, cb \in Callbacks : unsubscribe(s, cb)
    \/ calls < MaxLiveCalls /\ \E v \in Vals : Read(v)
    \/ calls < MaxLiveCalls /\ \E v \in Vals : Mutate(v)
    \/ calls < MaxLiveCalls /\ \E s \in Stores : getSnapshot(s)
    \/ calls < MaxLiveCalls /\
            \E s \in Stores, v \in Vals, raises \in BOOLEAN : SignalValue(s, v, raises)
    \/ runMicrotask

\* One store with two subscribers: its renders, the subscribe calls made with
\* either callback, the functions they returned, and the signal's writes.
Shared == CHOOSE s \in Stores : TRUE

NextSubs ==
    \/ useSignals(Shared)
    \/ finishTracking(Shared)
    \/ \E cb \in TwoCallbacks : subscribe(Shared, cb)
    \/ \E cb \in TwoCallbacks : unsubscribe(Shared, cb)
    \/ \E v \in Vals : Read(v)
    \/ \E v \in Vals : Mutate(v)
    \/ \E v \in Vals, raises \in BOOLEAN : SignalValue(Shared, v, raises)

Spec     == Init /\ [][Next]_vars
SpecTick == InitTick /\ [][Next]_vars
SpecAssert == InitAssert /\ [][NextBracket]_vars
SpecWrap == InitWrap /\ [][Next]_vars
\* A queued microtask is eventually run.
SpecLive == Init /\ [][NextLive]_vars /\ WF_vars(runMicrotask)
SpecSubs == Init /\ [][NextSubs]_vars

TypeOK ==
    /\ version \in [Stores -> Int]
    /\ onChangeNotifyReact \in [Stores -> Callbacks \cup {"none"}]
    /\ inRender \in [Stores -> BOOLEAN]
    /\ syncRerendersCount \in [Stores -> Nat]
    /\ storeRef \in [Stores -> Nat]
    /\ useSignalsDepth \in 0 .. MaxDepth
    /\ cleanUpFn \in [effect : Stores \cup {"none"}, id : Nat]
    /\ resetSyncRerendersSet \subseteq Stores
    /\ microtasks \in Nat
    /\ sources \in [Stores -> SUBSET Vals]
    /\ stale \subseteq recorded

\* ================================================================== claims
\* A call was just made (every call rewrites `last` and counts in `calls`).
Called1 == calls' > calls

Subscribed(s) == onChangeNotifyReact[s] # "none"
Notified == DOMAIN last.seen

\* C1 (one direction of the claim): when a signal is written while no store is
\* rendering, the notify callback of a subscribed store whose own unit did not
\* read that signal in its latest tracking region is not invoked.
C1_OnlyReadersNotified ==
    (last.op = "mutate" /\ wellNested /\ stack = <<>> /\ useSignalsDepth = 0) =>
        \A s \in Stores : (Subscribed(s) /\ s \in Notified) => last.val \in lastRead[s]

\* C2 (the step N -> N + 1 of the claim): a write, made while no recording
\* region is open, of a signal the effect of store s is subscribed to, s having
\* a callback subscribed and being between its finishTracking and its next
\* startTracking, adds one to the version of s (with 32-bit wrap-around) and
\* invokes the callback of s once.
C2_EachMutationBumpsAndNotifies ==
    [][\A s \in Stores :
         ( /\ Called1
           /\ last'.op = "mutate"
           /\ wellNested
           /\ openRegions = 0
           /\ last'.val \in sources[s]
           /\ Subscribed(s)
           /\ s \notin Range(stack) )
         => (version'[s] = Inc32(version[s]) /\ s \in DOMAIN last'.seen)]_vars

\* C3: a dependency change delivered to a store whose inRender is true leaves
\* the store's version, callback registration and counter unchanged and does
\* not invoke the callback; a write that reaches only rendering stores changes
\* nothing of the stores, the shared depth and handle, or the scheduler.
C3_IgnoredWhileRendering ==
    [][Called1 =>
         /\ \A s \in last'.rendering :
               /\ version'[s] = version[s]
               /\ s \notin DOMAIN last'.seen
               /\ onChangeNotifyReact'[s] = onChangeNotifyReact[s]
               /\ syncRerendersCount'[s] = syncRerendersCount[s]
         /\ (last'.op = "mutate" /\ last'.delivered # {} /\ last'.delivered = last'.rendering)
               => /\ UNCHANGED <<storeVars, sharedVars, schedVars>>
                  /\ last'.threw = "none"]_vars

\* The handler of a rendering store ran: the store closing its own region was
\* notified of a write made during its render.
C3_Witness ==
    /\ last.op = "finish"
    /\ last.store \in last.rendering
    /\ last.store = last.invoked.effect

\* C4: whenever the notify callback of a store runs, the store's version has
\* already been incremented: the snapshot the callback reads is the version
\* before the change plus one, and differs from it.
C4_IncrementBeforeNotify ==
    [][Called1 =>
         \A s \in DOMAIN last'.seen :
             /\ last'.seen[s] = Inc32(version[s])
             /\ last'.seen[s] # version[s]
             /\ version'[s] = last'.seen[s]]_vars

C4_Witness == last.op = "mutate" /\ Notified # {}

\* C5: when the notify callback throws, the call that delivered the change
\* throws, the store's version is the version before plus one, and the store's
\* callback registration, inRender and counter are unchanged; so are the shared
\* depth and cleanup handle when the change was delivered by a write.
C5_RaisingCallbackKeepsIncrement ==
    [][Called1 =>
         \A s \in last'.raised :
             /\ last'.threw # "none"
             /\ version'[s] = Inc32(version[s])
             /\ onChangeNotifyReact'[s] = onChangeNotifyReact[s]
             /\ inRender'[s] = inRender[s]
             /\ syncRerendersCount'[s] = syncRerendersCount[s]
             /\ last'.op = "mutate" => UNCHANGED sharedVars]_vars

C5_Witness == last.op = "mutate" /\ last.raised # {} /\ last.threw = "callback"

C7_NoRunawayAfterReset ==
    /\ \A s \in last.refused : startsSinceReset[s] > maxSyncRerenders
    /\ \A s \in Stores : syncRerendersCount[s] = startsSinceReset[s]

\* A store that had reached the ceiling was reset, rendered again and then
\* took a dependency change without the runaway error.
C7_Witness ==
    \E s \in exceeded :
        /\ startsSinceReset[s] >= 1
        /\ startsSinceReset[s] < NearCeiling
        /\ last.op = "mutate"
        /\ s \in last.delivered
        /\ s \notin last.rendering
        /\ s \notin last.refused
        /\ version[s] # FreshVersion

\* C8: a startTracking at depth 0 opens one recording region and stores its
\* handle; a startTracking at a depth above 0 and a finishTracking at a depth
\* above 1 only change the depth; the finishTracking at depth 1 closes the one
\* open region by invoking the handle the outermost startTracking stored.
C8_OneRegionPerNest ==
    [][Called1 =>
         /\ (last'.op = "start" /\ last'.threw = "none") =>
               /\ useSignalsDepth' = useSignalsDepth + 1
               /\ IF useSignalsDepth = 0
                  THEN /\ openRegions' = openRegions + 1
                       /\ cleanUpFn' # NoHandle
                       /\ cleanUpFn' # cleanUpFn
                       /\ outerHandle' = cleanUpFn'
                  ELSE /\ openRegions' = openRegions
                       /\ cleanUpFn' = cleanUpFn
                       /\ outerHandle' = outerHandle
         /\ (last'.op = "finish" /\ last'.threw # "depth") =>
               /\ useSignalsDepth' = useSignalsDepth - 1
               /\ IF useSignalsDepth = 1
                  THEN /\ openRegions' = openRegions - 1
                       /\ last'.invoked = outerHandle
                       /\ last'.invoked # NoHandle
                  ELSE /\ openRegions' = openRegions
                       /\ last'.invoked = NoHandle
                       /\ cleanUpFn' = cleanUpFn
         /\ openRegions' = IF useSignalsDepth' > 0 THEN 1 ELSE 0]_vars

\* An inner finishTracking returned: the depth went from 2 to 1, the region
\* of the outer store is still the one open region and its handle is kept.
C8_Witness ==
    /\ last.op = "finish"
    /\ last.threw = "none"
    /\ useSignalsDepth = 1
    /\ openRegions = 1
    /\ cleanUpFn = outerHandle
    /\ cleanUpFn.effect # last.store
    /\ stack = <<cleanUpFn.effect>>

\* C9: between calls, the shared cleanup handle is defined exactly when the
\* shared depth is above 0.
C9_HandleIffDepth == (cleanUpFn # NoHandle) <=> (useSignalsDepth > 0)

\* A finishTracking that threw (a notify callback raised while the region
\* closed) left depth 0 and no handle.
C9_Witness ==
    /\ last.op = "finish"
    /\ last.threw = "callback"
    /\ last.invoked # NoHandle
    /\ useSignalsDepth = 0
    /\ cleanUpFn = NoHandle

\* C10: between calls, a store's inRender is true exactly when the store has a
\* startTracking not yet matched by its own finishTracking.
C10_InRenderIffOpen ==
    wellNested => \A s \in Stores : inRender[s] <=> (s \in Range(stack))

\* C11: a finishTracking made at depth 0 throws and changes nothing of the
\* stores, the shared depth and handle, the scheduler or the effects; every
\* other call changes the depth as the count requires (a startTracking that
\* returns adds one, a finishTracking made at depth 1 or more takes one off,
\* whether it returns or throws, nothing else changes it), and the depth is
\* never negative.
C11_DepthCountsOpenStarts ==
    [][Called1 =>
         /\ (last'.op = "finish" /\ useSignalsDepth = 0) =>
               /\ last'.threw = "depth"
               /\ UNCHANGED <<storeVars, sharedVars, schedVars, effectVars>>
         /\ (last'.op = "finish" /\ useSignalsDepth >= 1) =>
               /\ last'.threw # "depth"
               /\ useSignalsDepth' = useSignalsDepth - 1
         /\ last'.op = "start" =>
               useSignalsDepth' = useSignalsDepth + (IF last'.threw = "none" THEN 1 ELSE 0)
         /\ last'.op \notin {"start", "finish"} => useSignalsDepth' = useSignalsDepth
         /\ useSignalsDepth' >= 0]_vars

\* A finishTracking was refused at depth 0 while a store was still marked
\* rendering and had a callback subscribed.
C11_Witness ==
    /\ last.op = "finish"
    /\ last.threw = "depth"
    /\ useSignalsDepth = 0
    /\ cleanUpFn = NoHandle
    /\ Subscribed(last.store)

\* The shared state breaks the pairing of depth and handle.
Inconsistent ==
    \/ useSignalsDepth = 0 /\ cleanUpFn # NoHandle
    \/ useSignalsDepth > 0 /\ cleanUpFn = NoHandle

\* C12: startTracking throws an assertion error exactly when it finds the
\* shared state inconsistent (depth 0 with a handle, or a depth above 0 without
\* one); when it throws, the depth, the handle and the open recording regions
\* are as before; when the state is consistent it returns normally.
C12_StartAssertsConsistency ==
    [][(Called1 /\ last'.op = "start") =>
         /\ (last'.threw = "assert") <=> Inconsistent
         /\ last'.threw \in {"assert", "none"}
         /\ last'.threw = "assert" =>
               UNCHANGED <<useSignalsDepth, cleanUpFn, openRegions, outerHandle>>
         /\ last'.threw = "none" => useSignalsDepth' = useSignalsDepth + 1]_vars

\* A startTracking threw: it found a handle at depth 0, or no handle at a
\* depth above 0, and left both as they were.
C12_Witness ==
    /\ last.op = "start"
    /\ last.threw = "assert"
    /\ Inconsistent
    /\ inRender[last.store]
    /\ syncRerendersCount[last.store] >= 1

\* The call just made was a finishTracking whose cleanup handle raised.
HandleRaised(c) == c.op = "finish" /\ c.invoked # NoHandle /\ c.threw # "none"

\* C13: when the cleanup handle raises in the finishTracking made at depth 1,
\* the error leaves the call and the state is reset all the same: the calling
\* store's inRender is false, the handle is undefined, the depth is 0 and no
\* region is open; a startTracking made next, on any store, returns normally
\* and opens a new region of that store's effect.
C13_ResetWhenHandleRaises ==
    [][Called1 =>
         /\ HandleRaised(last') =>
               /\ useSignalsDepth = 1
               /\ ~inRender'[last'.store]
               /\ cleanUpFn' = NoHandle
               /\ useSignalsDepth' = 0
               /\ openRegions' = 0
         /\ (HandleRaised(last) /\ last'.op = "start") =>
               /\ last'.threw = "none"
               /\ useSignalsDepth' = 1
               /\ openRegions' = 1
               /\ cleanUpFn' # NoHandle
               /\ cleanUpFn'.effect = last'.store
               /\ recorded' = {}]_vars

\* The handle raised (a notify callback threw while the batch of the region
\* ended) and calls remain to be made in the reset state.
C13_Witness ==
    /\ HandleRaised(last)
    /\ last.raised # {}
    /\ ~inRender[last.store]
    /\ calls < MaxCalls

\* C14: invoking the function subscribe returned replaces the store's version
\* by a different one (the version plus one, wrapped to 32 bits), leaves no
\* callback registered, invokes no callback and touches no other store;
\* subscribe registers the callback and leaves every version as it is.  So
\* after subscribe, unsubscribe, subscribe the snapshot differs from the one
\* before the unsubscribe.
C14_UnsubscribeRotatesVersion ==
    [][Called1 =>
         /\ last'.op = "unsubscribe" =>
               /\ version'[last'.store] # version[last'.store]
               /\ version'[last'.store] = Inc32(version[last'.store])
               /\ onChangeNotifyReact'[last'.store] = "none"
               /\ last'.delivered = {} /\ last'.seen = <<>>
               /\ \A t \in Stores \ {last'.store} :
                     /\ version'[t] = version[t]
                     /\ onChangeNotifyReact'[t] = onChangeNotifyReact[t]
         /\ last'.op = "subscribe" =>
               /\ version' = version
               /\ onChangeNotifyReact'[last'.store] # "none"
               /\ last'.delivered = {} /\ last'.seen = <<>>]_vars

\* A store whose version was the largest 32-bit value has been subscribed
\* again after its unsubscribe (its effect is still disposed) and no change
\* reached it in between: the one increment made is the unsubscribe's, and
\* the snapshot is now the smallest 32-bit value.
C14_Witness ==
    /\ last.op = "subscribe"
    /\ disposed[last.store]
    /\ Subscribed(last.store)
    /\ version[last.store] = MinInt32

\* C15: at most one resetSyncRerenders callback is queued at any time, and
\* isResetSyncRerendersScheduled is true exactly when one is queued and has not
\* run yet.
C15_OneResetQueued ==
    /\ microtasks \in {0, 1}
    /\ isResetSyncRerendersScheduled <=> (microtasks = 1)

\* Every store was started since the reset task last ran, one of them more
\* than once, and a single callback is queued.
C15_Witness ==
    /\ \A s \in Stores : startsSinceReset[s] >= 1
    /\ \E s \in Stores : startsSinceReset[s] >= 2
    /\ microtasks = 1
    /\ resetSyncRerendersSet = Stores

\* C16: when the queued reset task runs, the counter of every store in the
\* registry becomes 0 and the other counters stay, the registry becomes empty
\* and isResetSyncRerendersScheduled false; no version, callback or inRender
\* flag, and neither the shared depth nor the handle, is changed.
C16_ResetClearsRegistry ==
    [][(Called1 /\ last'.op = "reset") =>
         /\ \A s \in Stores :
               syncRerendersCount'[s] =
                   IF s \in resetSyncRerendersSet THEN 0 ELSE syncRerendersCount[s]
         /\ resetSyncRerendersSet' = {}
         /\ ~isResetSyncRerendersScheduled'
         /\ UNCHANGED <<version, onChangeNotifyReact, inRender, sharedVars>>]_vars

\* The reset task ran in the middle of a render: the rendering store's counter
\* is 0 again while its inRender, the depth and the handle are as they were.
C16_Witness ==
    /\ last.op = "reset"
    /\ resetSyncRerendersSet = {}
    /\ ~isResetSyncRerendersScheduled
    /\ useSignalsDepth > 0
    /\ cleanUpFn # NoHandle
    /\ \E s \in Stores : inRender[s] /\ syncRerendersCount[s] = 0 /\ Subscribed(s)

\* C17: if every queued microtask eventually runs, a store whose counter is
\* above 0 (it was started) eventually has its counter at 0 again, whatever is
\* called in between.
C17_CountersEventuallyReset ==
    \A s \in Stores : (syncRerendersCount[s] > 0) ~> (syncRerendersCount[s] = 0)

\* The microtask ran after a render and a change that reached the store
\* rendered: all counters are 0 and nothing is queued.
C17_Witness ==
    /\ last.op = "reset"
    /\ microtasks = 0
    /\ \A s \in Stores : syncRerendersCount[s] = 0
    /\ \E s \in Stores : sources[s] # {} /\ version[s] # FreshVersion

\* The store took a version increment in the call just made: its returned
\* unsubscribe function was invoked, or a dependency change reached it while
\* it was not rendering and was not refused.
Incremented(s) ==
    \/ last'.op = "unsubscribe" /\ last'.store = s
    \/ s \in last'.delivered \ (last'.rendering \cup last'.refused)

C19_HookKeepsOneStore ==
    [][Called1 =>
         /\ last'.op \notin {"start", "render"} => storeRef' = storeRef
         /\ last'.op \in {"start", "render"} =>
               /\ storeRef'[last'.store] = 1
               /\ \A t \in Stores \ {last'.store} : storeRef'[t] = storeRef[t]
               /\ syncRerendersCount'[last'.store] = syncRerendersCount[last'.store] + 1
         /\ last'.op = "start" =>
               /\ last'.threw = "none"
               /\ useSignalsDepth' = useSignalsDepth + 1
               /\ inRender'[last'.store]]_vars

\* The hook ran again for a unit rendered before in the same tick, after a
\* dependency change reached its store: the store is still the first one made.
C19_Witness ==
    /\ last.op = "start"
    /\ storeRef[last.store] = 1
    /\ startsSinceReset[last.store] >= 2
    /\ version[last.store] # FreshVersion
    /\ inRender[last.store]

\* C20: rendering a signal as SignalValue leaves the shared depth and the
\* renders in progress as they were, whether reading the value returned or
\* raised: the store's startTracking ran once (its counter went up by one) and
\* was matched by one finishTracking.  Started at depth 0 the render opened one
\* region, closed it by its handle and left no handle and no region open;
\* started deeper it left the handle and the open region alone.
C20_SignalValueBalanced ==
    [][(Called1 /\ last'.op = "render") =>
         /\ last'.threw \in {"none", "read"}
         /\ useSignalsDepth' = useSignalsDepth
         /\ stack' = stack
         /\ syncRerendersCount'[last'.store] = syncRerendersCount[last'.store] + 1
         /\ openRegions' = openRegions
         /\ IF useSignalsDepth = 0
            THEN /\ cleanUpFn' = NoHandle
                 /\ openRegions' = 0
                 /\ last'.invoked # NoHandle
                 /\ last'.invoked.effect = last'.store
            ELSE /\ cleanUpFn' = cleanUpFn
                 /\ last'.invoked = NoHandle]_vars

\* A SignalValue render started at depth 0 whose read raised: the depth is 0
\* again, no handle is left and the signal is a source of the store's effect.
C20_Witness ==
    /\ last.op = "render"
    /\ last.threw = "read"
    /\ last.invoked # NoHandle
    /\ useSignalsDepth = 0
    /\ cleanUpFn = NoHandle
    /\ sources[last.store] = {last.val}

\* C21: a store has a notify callback registered whenever a subscribe call was
\* made whose own returned function has not been invoked since: the registered
\* callback is one of those still subscribed, whichever returned functions
\* were invoked and however often, and a dependency change the handler of the
\* store accepted invokes it.
C21_SubscriberKeptUntilOwnUnsubscribe ==
    /\ \A s \in Stores :
          activeSubs[s] # {} => onChangeNotifyReact[s] \in activeSubs[s]
    /\ \A s \in last.delivered \ (last.rendering \cup last.refused) :
          activeSubs[s] # {} => s \in Notified

\* C22: a dependency change that reaches a store that is not rendering and
\* whose syncRerendersCount is above maxSyncRerenders is refused: the handler
\* throws the runaway error, the call that delivered the change throws, the
\* version is not incremented and the notify callback is not invoked.  With a
\* counter of maxSyncRerenders or less the handler never throws that error.
\* A counter above maxSyncRerenders stays above it until the reset task runs,
\* so the store goes on refusing.
C22_RunawayRefusedUntilReset ==
    [][Called1 =>
         /\ \A s \in last'.delivered \ last'.rendering :
               IF syncRerendersCount[s] > maxSyncRerenders
               THEN /\ s \in last'.refused
                    /\ last'.threw # "none"
                    /\ last'.raised = {} => last'.threw = "tooMany"
                    /\ version'[s] = version[s]
                    /\ s \notin DOMAIN last'.seen
               ELSE s \notin last'.refused
         /\ last'.refused \subseteq last'.delivered \ last'.rendering
         /\ last'.threw = "tooMany" => last'.refused # {}
         /\ \A s \in Stores :
               (syncRerendersCount[s] > maxSyncRerenders /\ last'.op # "reset")
                   => syncRerendersCount'[s] > maxSyncRerenders]_vars

\* A write reached a subscribed store that had finished its 26th render of the
\* tick, and was refused.
C22_Witness ==
    /\ last.op = "mutate"
    /\ last.threw = "tooMany"
    /\ \E s \in last.refused :
          /\ Subscribed(s)
          /\ ~inRender[s]
          /\ syncRerendersCount[s] = maxSyncRerenders + 1

\* C23: between calls, every store whose syncRerendersCount is above 0 is in
\* resetSyncRerendersSet, and whenever that set is not empty a reset is
\* scheduled: the flag is true and one resetSyncRerenders callback is queued.
\* The reset task therefore leaves no counter above 0.
C23_CountedStoresAwaitReset ==
    /\ \A s \in Stores : syncRerendersCount[s] > 0 => s \in resetSyncRerendersSet
    /\ resetSyncRerendersSet # {} =>
          (isResetSyncRerendersScheduled /\ microtasks = 1)
    /\ last.op = "reset" => \A s \in Stores : syncRerendersCount[s] = 0

\* Both stores rendered in the same tick, one of them more than once: both
\* are counted and registered, and one reset is queued for all the renders.
C23_Witness ==
    /\ last.op = "start"
    /\ \A s \in Stores : syncRerendersCount[s] > 0
    /\ \E s \in Stores : syncRerendersCount[s] > 1
    /\ resetSyncRerendersSet = Stores
    /\ isResetSyncRerendersScheduled
    /\ microtasks = 1

====
